---------------------------- MODULE Spec2Model ----------------------------
(***************************************************************************)
(* A model of packages/cli/index.ts: the versioned snapshot store behind   *)
(* the language-service host, the resolveRules loop over the plugins, the  *)
(* per-file fix loop with its retry budget,                                *)
(* the merge pass that sorts and applies the plugins' text changes, the    *)
(* report pass and the process exit status.                                *)
(*                                                                         *)
(* Texts are sequences of one-character strings.  Offsets are 0-based as   *)
(* in the source; sequences are 1-based.                                   *)
(***************************************************************************)
EXTENDS Integers, Sequences, FiniteSets

(***************************************************************************)
(* Bounds of the explored inputs.                                          *)
(***************************************************************************)
\* Largest number of text edits proposed in one generated merge pass.
MaxEdits == 3

\* `let retry = 3` (index.ts:77).
RetryBudget == 3

\* parsed.fileNames: the project's input files, fixed for the run.
fileNames == <<"a.ts", "b.ts">>

Files == {fileNames[i] : i \in 1..Len(fileNames)}

\* Backing storage before the run (what ts.sys.readFile returns).
InitialDisk == [f \in Files |-> IF f = "a.ts" THEN <<"a", "b", "c">> ELSE <<"d", "e">>]

\* The plugins, by their position in `plugins` (registration order).
Plugins == {1, 2}

(***************************************************************************)
(* JavaScript primitives used by the loop.                                 *)
(***************************************************************************)
Min(a, b) == IF a <= b THEN a ELSE b

\* String.prototype.slice(from, to) for non-negative arguments: both ends
\* are clamped to the length, and an empty range gives the empty string.
Slice(text, from, to) ==
    LET n == Len(text)
        lo == Min(from, n)
        hi == Min(to, n)
    IN  IF lo >= hi THEN <<>> ELSE SubSeq(text, lo + 1, hi)

\* String.prototype.slice(from): to the end of the string.
SliceFrom(text, from) == Slice(text, from, Len(text))

\* Number.prototype.toString() for a non-negative integer.
Digits == <<"0", "1", "2", "3", "4", "5", "6", "7", "8", "9">>

RECURSIVE NumberToString(_)
NumberToString(n) ==
    IF n < 10 THEN Digits[n + 1] ELSE NumberToString(n \div 10) \o Digits[(n % 10) + 1]

\* Array.prototype.flat() on an array of arrays.
RECURSIVE Flat(_)
Flat(seqs) == IF seqs = <<>> THEN <<>> ELSE Head(seqs) \o Flat(Tail(seqs))

\* Array.prototype.sort with the comparator (a, b) => key(b) - key(a): the
\* order of the indices of `keys`, descending by key.  The sort is stable, so
\* equal keys stay in their original order.
RECURSIVE SortDescUpTo(_, _)
SortDescUpTo(keys, k) ==
    IF k = 0 THEN <<>>
    ELSE LET prev == SortDescUpTo(keys, k - 1)
             pos  == Cardinality({i \in 1..Len(prev) : keys[prev[i]] >= keys[k]})
         IN  SubSeq(prev, 1, pos) \o <<k>> \o SubSeq(prev, pos + 1, Len(prev))

SortDesc(keys) == SortDescUpTo(keys, Len(keys))

(***************************************************************************)
(* The merge pass (index.ts:89-111).                                       *)
(*                                                                         *)
(* A text change is [span |-> [start, length], newText]; a file text       *)
(* change is [fileName, textChanges]; a fix (ts.CodeFixAction) is          *)
(* [changes |-> sequence of file text changes].  `origin` is the index of  *)
(* the fix a change came from: the source does not keep it, the model      *)
(* carries it along to name the fix in the properties.                     *)
(***************************************************************************)
\* plugins.map(getFixes).flat().filter(fix => !!fix).  A plugin's answer is
\* [defined, fixes]: `plugin.getFixes?.(...)` is undefined for a plugin
\* without getFixes, and the filter drops it.
CollectFixes(outputs) ==
    Flat([p \in 1..Len(outputs) |-> IF outputs[p].defined THEN outputs[p].fixes ELSE <<>>])

\* fixes.map(fix => fix.changes).flat(), each change tagged with its fix.
FlattenChanges(fixes) ==
    Flat([i \in 1..Len(fixes) |->
            [j \in 1..Len(fixes[i].changes) |->
                [origin |-> i,
                 fileName |-> fixes[i].changes[j].fileName,
                 textChanges |-> fixes[i].changes[j].textChanges]]])

\* .filter(change => change.fileName === sourceFile.fileName && change.textChanges.length)
KeepChange(change, f) ==
    change.fileName = f /\ Len(change.textChanges) # 0

RECURSIVE FilterChanges(_, _)
FilterChanges(changes, f) ==
    IF changes = <<>> THEN <<>>
    ELSE (IF KeepChange(Head(changes), f) THEN <<Head(changes)>> ELSE <<>>)
            \o FilterChanges(Tail(changes), f)

\* .sort((a, b) => b.textChanges[0].span.start - a.textChanges[0].span.start)
ChangeSortKey(change) == change.textChanges[1].span.start

SortedChanges(fixes, f) ==
    LET kept  == FilterChanges(FlattenChanges(fixes), f)
        order == SortDesc([k \in 1..Len(kept) |-> ChangeSortKey(kept[k])])
    IN  [k \in 1..Len(kept) |-> kept[order[k]]]

\* [...change.textChanges].sort((a, b) => b.span.start - a.span.start)
SortedTextChanges(change) ==
    LET tcs   == change.textChanges
        order == SortDesc([k \in 1..Len(tcs) |-> tcs[k].span.start])
    IN  [k \in 1..Len(tcs) |-> tcs[order[k]]]

\* text.slice(0, start) + newText + text.slice(start + length)
ApplyTextChange(text, tc) ==
    Slice(text, 0, tc.span.start) \o tc.newText
        \o SliceFrom(text, tc.span.start + tc.span.length)

RECURSIVE ApplyTextChanges(_, _)
ApplyTextChanges(text, textChanges) ==
    IF textChanges = <<>> THEN text
    ELSE ApplyTextChanges(ApplyTextChange(text, Head(textChanges)), Tail(textChanges))

\* if (lastChangeAt >= lastChange.span.start + lastChange.span.length)
Accepts(lastChangeAt, lastChange) ==
    lastChangeAt >= lastChange.span.start + lastChange.span.length

\* for (const change of changes) { ... }: the state after the first k changes.
\* `accepted` records, per change, whether its text changes were applied.
RECURSIVE MergeLoop(_, _, _)
MergeLoop(changes, sourceText, k) ==
    IF k = 0 THEN [text |-> sourceText, lastChangeAt |-> Len(sourceText), accepted |-> <<>>]
    ELSE LET before      == MergeLoop(changes, sourceText, k - 1)
             textChanges == SortedTextChanges(changes[k])
             lastChange  == textChanges[1]
             firstChange == textChanges[Len(textChanges)]
         IN  IF Accepts(before.lastChangeAt, lastChange)
             THEN [text         |-> ApplyTextChanges(before.text, textChanges),
                   lastChangeAt |-> firstChange.span.start,
                   accepted     |-> Append(before.accepted, TRUE)]
             ELSE [before EXCEPT !.accepted = Append(before.accepted, FALSE)]

\* One pass over a source text: the sorted changes, whether there are any
\* (`changes.length`), the text after the loop and the acceptance record.
MergePassOf(f, sourceText, fixes) ==
    LET changes == SortedChanges(fixes, f)
        end     == MergeLoop(changes, sourceText, Len(changes))
    IN  [file     |-> f,
         source   |-> sourceText,
         fixes    |-> fixes,
         changes  |-> changes,
         accepted |-> end.accepted,
         text     |-> end.text,
         ran      |-> TRUE]

\* The record before any pass has run.
NoPass ==
    [file |-> "", source |-> <<>>, fixes |-> <<>>, changes |-> <<>>,
     accepted |-> <<>>, text |-> <<>>, ran |-> FALSE]

(***************************************************************************)
(* The language-service host over the snapshot and version maps            *)
(* (index.ts:23-53).  A Map is a function whose domain is its key set.     *)
(***************************************************************************)
\* Map.prototype.set
MapSet(map, key, value) ==
    [k \in DOMAIN map \cup {key} |-> IF k = key THEN value ELSE map[k]]

\* getProjectVersion() { return projectVersion.toString(); }
getProjectVersion(pv) == NumberToString(pv)

\* getScriptVersion(fileName) { return versions.get(fileName)?.toString() ?? '0'; }
getScriptVersion(vs, fileName) ==
    IF fileName \in DOMAIN vs THEN NumberToString(vs[fileName]) ELSE "0"

\* getScriptSnapshot(fileName): the snapshot map after the call; a missing
\* entry is filled from ts.sys.readFile.
getScriptSnapshot(snaps, storage, fileName) ==
    IF fileName \in DOMAIN snaps THEN snaps ELSE MapSet(snaps, fileName, storage[fileName])

\* The program before the first languageService.getProgram().
NoProgram == [projectVersion |-> "", sourceFiles |-> <<>>]

\* languageService.getProgram() (index.ts:84, :125) against the host: the
\* program is reused while getProjectVersion() answers the same string;
\* otherwise every input file whose getScriptVersion() differs from the one
\* its source file was built from is rebuilt from getScriptSnapshot().
RECURSIVE SyncFiles(_, _, _, _, _)
SyncFiles(prog, snaps, vs, storage, k) ==
    IF k = 0 THEN [sourceFiles |-> <<>>, snapshots |-> snaps]
    ELSE LET before == SyncFiles(prog, snaps, vs, storage, k - 1)
             f      == fileNames[k]
             fresh  == /\ f \in DOMAIN prog.sourceFiles
                       /\ prog.sourceFiles[f].version = getScriptVersion(vs, f)
             read   == getScriptSnapshot(before.snapshots, storage, f)
         IN  IF fresh
             THEN [before EXCEPT !.sourceFiles = MapSet(@, f, prog.sourceFiles[f])]
             ELSE [sourceFiles |-> MapSet(before.sourceFiles, f,
                                          [version |-> getScriptVersion(vs, f),
                                           text    |-> read[f]]),
                   snapshots   |-> read]

GetProgram(prog, snaps, vs, pv, storage) ==
    IF prog.projectVersion = getProjectVersion(pv)
    THEN [program |-> prog, snapshots |-> snaps]
    ELSE LET synced == SyncFiles(prog, snaps, vs, storage, Len(fileNames))
         IN  [program   |-> [projectVersion |-> getProjectVersion(pv),
                             sourceFiles    |-> synced.sourceFiles],
              snapshots |-> synced.snapshots]

(***************************************************************************)
(* What the plugins may answer.  A plugin is free to propose anything; the *)
(* answers explored for a text of length n are listed here.                *)
(***************************************************************************)
TextChange(start, length, newText) ==
    [span |-> [start |-> start, length |-> length], newText |-> newText]

FileChange(fileName, textChanges) ==
    [fileName |-> fileName, textChanges |-> textChanges]

Fix(changes) == [changes |-> changes]

OtherFile(f) == CHOOSE g \in Files : g # f

NoGetFixes == [defined |-> FALSE, fixes |-> <<>>]

Answer(fixes) == [defined |-> TRUE, fixes |-> fixes]

\* The fixes explored, for a text of length n: an insertion at the end, a
\* replacement and a deletion of the first character, a fix with a change in
\* this file and a change in another file, a fix whose change has no text
\* changes.
InsertAtEnd(f, n, c) == Fix(<<FileChange(f, <<TextChange(n, 0, <<c>>)>>)>>)

ReplaceFirst(f, c) == Fix(<<FileChange(f, <<TextChange(0, 1, <<c>>)>>)>>)

DeleteFirst(f) == Fix(<<FileChange(f, <<TextChange(0, 1, <<>>)>>)>>)

CrossFile(f) ==
    Fix(<<FileChange(f, <<TextChange(0, 0, <<"i">>)>>),
          FileChange(OtherFile(f), <<TextChange(0, 1, <<"z">>)>>)>>)

NoTextChanges(f) == Fix(<<FileChange(f, <<>>)>>)

\* A fix computed for a longer text: it replaces the character after the end.
PastEnd(f, n) == Fix(<<FileChange(f, <<TextChange(n, 1, <<"?">>)>>)>>)

\* The answers of the two plugins to getFixes(fileName, 0, sourceFile.text.length)
\* that are explored: nothing; one insertion; two fixes on the same span, of
\* length one and of length zero; a cross-file fix; a deletion beside a fix
\* without text changes; only a fix without text changes; a fix past the end
\* of the text.  The second file is explored with the first three.
Proposals(f, text) ==
    LET n == Len(text)
        few == {<<NoGetFixes, Answer(<<>>)>>,
                <<Answer(<<InsertAtEnd(f, n, ";")>>), Answer(<<>>)>>,
                <<Answer(<<>>), Answer(<<CrossFile(f)>>)>>}
        more == {<<Answer(<<ReplaceFirst(f, "x")>>), Answer(<<ReplaceFirst(f, "y")>>)>>,
                 <<Answer(<<InsertAtEnd(f, n, ";")>>), Answer(<<InsertAtEnd(f, n, "!")>>)>>,
                 <<Answer(<<DeleteFirst(f)>>), Answer(<<NoTextChanges(f)>>)>>,
                 <<NoGetFixes, Answer(<<NoTextChanges(f)>>)>>,
                 <<Answer(<<PastEnd(f, n)>>), NoGetFixes>>}
    IN  IF f = fileNames[1] THEN few \cup more ELSE few

\* plugins.map(plugin => plugin.lint?.(...)).flat().filter(diag => !!diag):
\* the plugins report nothing, or the first reports one diagnostic.
LintAnswers == {<<<<>>, <<>>>>, <<<<"diagnostic">>, <<>>>>}

\* ts.formatDiagnosticsWithColorAndContext: the empty string for no
\* diagnostics, one block of text per diagnostic otherwise.
FormatDiagnostics(diagnostics) == Flat([k \in 1..Len(diagnostics) |-> <<"error", "\n">>])

(***************************************************************************)
(* State.                                                                  *)
(***************************************************************************)
VARIABLES
    fix,            \* process.argv.includes('--fix')
    pc,             \* where the run is: "resolve", "file", "loop", "exited", "aborted",
                    \* "merge", "merged"
    hasResolveRules,\* per plugin, whether it has a resolveRules method
    pluginIdx,      \* position in `plugins` of the plugin of the resolveRules loop
    rules,          \* tsslintConfig.rules: [defined, value]
    fileIdx,        \* index into fileNames of the file of the for loop
    projectVersion, \* let projectVersion
    snapshots,      \* const snapshots = new Map()
    versions,       \* const versions = new Map()
    program,        \* the language service's program
    disk,           \* backing storage (ts.sys.readFile / writeFile)
    retry,          \* let retry
    shouldRetry,    \* let shouldRetry
    newSnapshot,    \* let newSnapshot: [defined, text]
    errors,         \* let errors
    exitCode,       \* the argument of process.exit, -1 before it is called
    pass,           \* history: the latest merge pass of the current file
    iterations,     \* history: loop bodies entered, per file
    commits,        \* history: commits (index.ts:112-116), per file
    proposed,       \* history: loop bodies in which a fix for the file was proposed, per file
    writes,         \* history: ts.sys.writeFile calls, per file
    remaining,      \* history: whether the latest lint of a file gave diagnostics
    resolveCalls,   \* history: the resolveRules calls, each [plugin, input]
    lintRules       \* history: the rule configurations the lint calls were given

vars ==
    <<fix, pc, fileIdx, projectVersion, snapshots, versions, program, disk, retry,
      shouldRetry, newSnapshot, errors, exitCode, pass, iterations, commits, proposed,
      writes, remaining, hasResolveRules, pluginIdx, rules, resolveCalls, lintRules>>

NoSnapshot == [defined |-> FALSE, text |-> <<>>]

\* tsslintConfig.rules as the config file leaves it: not set.
NoRules == [defined |-> FALSE, value |-> <<>>]

Init ==
    /\ fix \in BOOLEAN
    /\ pc = "resolve"
    /\ hasResolveRules \in [Plugins -> BOOLEAN]
    /\ pluginIdx = 1
    /\ rules = NoRules
    /\ resolveCalls = <<>>
    /\ lintRules = {}
    /\ fileIdx = 1
    /\ projectVersion = 0
    /\ snapshots = <<>>
    /\ versions = <<>>
    /\ program = NoProgram
    /\ disk = InitialDisk
    /\ retry = RetryBudget
    /\ shouldRetry = TRUE
    /\ newSnapshot = NoSnapshot
    /\ errors = 0
    /\ exitCode = -1
    /\ pass = NoPass
    /\ iterations = [f \in Files |-> 0]
    /\ commits = [f \in Files |-> 0]
    /\ proposed = [f \in Files |-> 0]
    /\ writes = [f \in Files |-> 0]
    /\ remaining = [f \in Files |-> FALSE]

fileName == fileNames[fileIdx]

(***************************************************************************)
(* The resolveRules loop (index.ts:66-70).  A rule configuration is        *)
(* modelled by the sequence of the plugins whose resolveRules produced it, *)
(* so that the configuration shows who resolved it and in which order.     *)
(***************************************************************************)
\* tsslintConfig.rules ?? {}
RulesOrEmpty(r) == IF r.defined THEN r.value ELSE <<>>

\* A loop that hands every plugin the empty configuration.
ResolveInput_Fresh(r) == <<>>

\* The argument of plugin.resolveRules.
ResolveInput(r) == RulesOrEmpty(r)

\* plugin.resolveRules(input) of plugin p.
resolveRules(p, input) == Append(input, p)

\* One turn of for (const plugin of plugins); the last turn leaves the loop.
ResolveRules ==
    /\ pc = "resolve"
    /\ pluginIdx <= Cardinality(Plugins)
    /\ IF hasResolveRules[pluginIdx]
       THEN /\ rules' = [defined |-> TRUE,
                         value |-> resolveRules(pluginIdx, ResolveInput(rules))]
            /\ resolveCalls' = Append(resolveCalls,
                                      [plugin |-> pluginIdx, input |-> ResolveInput(rules)])
       ELSE UNCHANGED <<rules, resolveCalls>>
    /\ pluginIdx' = pluginIdx + 1
    /\ pc' = IF pluginIdx = Cardinality(Plugins) THEN "file" ELSE "resolve"
    /\ UNCHANGED <<fix, fileIdx, projectVersion, snapshots, versions, program, disk, retry,
                   shouldRetry, newSnapshot, errors, exitCode, pass, iterations, commits,
                   proposed, writes, remaining, hasResolveRules, lintRules>>

(***************************************************************************)
(* The fix loop (index.ts:75-123).                                         *)
(***************************************************************************)
\* The loop guard without the budget: while (shouldRetry).
LoopGuard_NoBudget(sr, r) == sr

\* The loop guard that gives up one attempt early.
LoopGuard_OneShort(sr, r) == sr /\ r > 1

\* while (shouldRetry && retry)
LoopGuard(sr, r) == sr /\ r # 0

\* retry--
RetryAfter(r) == r - 1

\* A commit that forgets the previous version: versions.set(fileName, 1).
VersionsAfterCommit_Reset(vs, f) == MapSet(vs, f, 1)

\* A commit that raises the version of every file.
VersionsAfterCommit_All(vs, f) ==
    [g \in Files |-> (IF g \in DOMAIN vs THEN vs[g] ELSE 0) + 1]

\* versions.set(sourceFile.fileName, (versions.get(sourceFile.fileName) ?? 0) + 1)
VersionsAfterCommit(vs, f) ==
    MapSet(vs, f, (IF f \in DOMAIN vs THEN vs[f] ELSE 0) + 1)

\* A commit that leaves the project version alone.
ProjectVersionAfterCommit_Same(pv) == pv

\* A commit that counts twice.
ProjectVersionAfterCommit_Twice(pv) == pv + 2

\* projectVersion++
ProjectVersionAfterCommit(pv) == pv + 1

\* A loop body that commits whether or not there are changes.
Commits_Always(changes) == TRUE

\* if (changes.length)
Commits(changes) == Len(changes) # 0

\* Some fix among `fixes` has a change for file f with at least one text change.
ProposesFor(fixes, f) ==
    \E i \in 1..Len(fixes) : \E j \in 1..Len(fixes[i].changes) :
        /\ fixes[i].changes[j].fileName = f
        /\ Len(fixes[i].changes[j].textChanges) # 0

\* let retry = 3; let shouldRetry = true; let newSnapshot
StartFix ==
    /\ pc = "file"
    /\ fileIdx <= Len(fileNames)
    /\ fix
    /\ retry' = RetryBudget
    /\ shouldRetry' = TRUE
    /\ newSnapshot' = NoSnapshot
    /\ pass' = NoPass
    /\ pc' = "loop"
    /\ UNCHANGED <<fix, fileIdx, projectVersion, snapshots, versions, program, disk,
                   errors, exitCode, iterations, commits, proposed, writes, remaining,
                       hasResolveRules, pluginIdx, rules, resolveCalls, lintRules>>

\* One run of the loop body with the plugins' answers given.
FixIteration(lint, outputs) ==
    LET synced     == GetProgram(program, snapshots, versions, projectVersion, disk)
        sourceFile == synced.program.sourceFiles[fileName]
        fixes      == CollectFixes(outputs)
        merged     == MergePassOf(fileName, sourceFile.text, fixes)
    IN  /\ pc = "loop"
        /\ LoopGuard(shouldRetry, retry)
        /\ retry' = RetryAfter(retry)
        /\ program' = synced.program
        /\ pass' = merged
        /\ iterations' = [iterations EXCEPT ![fileName] = @ + 1]
        /\ remaining' = [remaining EXCEPT ![fileName] = Flat(lint) # <<>>]
        /\ proposed' = [proposed EXCEPT ![fileName] = IF ProposesFor(fixes, fileName) THEN @ + 1 ELSE @]
        /\ IF Commits(merged.changes)
           THEN /\ newSnapshot' = [defined |-> TRUE, text |-> merged.text]
                /\ snapshots' = MapSet(synced.snapshots, fileName, merged.text)
                /\ versions' = VersionsAfterCommit(versions, fileName)
                /\ projectVersion' = ProjectVersionAfterCommit(projectVersion)
                /\ shouldRetry' = TRUE
                /\ commits' = [commits EXCEPT ![fileName] = @ + 1]
           ELSE /\ snapshots' = synced.snapshots
                /\ shouldRetry' = FALSE
                /\ UNCHANGED <<newSnapshot, versions, projectVersion, commits>>
        /\ lintRules' = lintRules \cup {RulesOrEmpty(rules)}
        /\ UNCHANGED <<fix, pc, fileIdx, disk, errors, exitCode, writes,
                       hasResolveRules, pluginIdx, rules, resolveCalls>>

\* sourceFile.text of the file of the for loop, as getProgram() gives it now.
SourceText ==
    GetProgram(program, snapshots, versions, projectVersion, disk).program.sourceFiles[fileName].text

FixLoopBody ==
    /\ pc = "loop"
    /\ \E lint \in LintAnswers :
         \E outputs \in Proposals(fileName, SourceText) : FixIteration(lint, outputs)

\* A loop body that writes the committed snapshot on its way out of a throw,
\* as a finally block around the loop would.
FixIterationThrows_Finally ==
    LET synced == GetProgram(program, snapshots, versions, projectVersion, disk)
    IN  /\ pc = "loop"
        /\ LoopGuard(shouldRetry, retry)
        /\ retry' = RetryAfter(retry)
        /\ shouldRetry' = FALSE
        /\ program' = synced.program
        /\ snapshots' = synced.snapshots
        /\ iterations' = [iterations EXCEPT ![fileName] = @ + 1]
        /\ pc' = "aborted"
        /\ IF newSnapshot.defined
           THEN /\ disk' = [disk EXCEPT ![fileName] = newSnapshot.text]
                /\ writes' = [writes EXCEPT ![fileName] = @ + 1]
           ELSE UNCHANGED <<disk, writes>>
        /\ UNCHANGED <<fix, fileIdx, projectVersion, versions, newSnapshot, errors,
                       exitCode, pass, commits, proposed, remaining,
                       hasResolveRules, pluginIdx, rules, resolveCalls, lintRules>>

\* The loop body when getSourceFile gives nothing or a plugin throws: the
\* error leaves the async function and nothing after it runs.
FixIterationThrows ==
    LET synced == GetProgram(program, snapshots, versions, projectVersion, disk)
    IN  /\ pc = "loop"
        /\ LoopGuard(shouldRetry, retry)
        /\ retry' = RetryAfter(retry)
        /\ shouldRetry' = FALSE
        /\ program' = synced.program
        /\ snapshots' = synced.snapshots
        /\ iterations' = [iterations EXCEPT ![fileName] = @ + 1]
        /\ pc' = "aborted"
        /\ UNCHANGED <<fix, fileIdx, projectVersion, versions, disk, newSnapshot, errors,
                       exitCode, pass, commits, proposed, writes, remaining,
                       hasResolveRules, pluginIdx, rules, resolveCalls, lintRules>>

\* A loop end that writes whether or not a snapshot was committed.
ShouldWrite_Always(snap) == TRUE

\* if (newSnapshot)
ShouldWrite(snap) == snap.defined

\* After the loop: if (newSnapshot) ts.sys.writeFile(...), then the next file.
EndFix ==
    /\ pc = "loop"
    /\ ~LoopGuard(shouldRetry, retry)
    /\ IF ShouldWrite(newSnapshot)
       THEN /\ disk' = [disk EXCEPT ![fileName] = newSnapshot.text]
            /\ writes' = [writes EXCEPT ![fileName] = @ + 1]
       ELSE UNCHANGED <<disk, writes>>
    /\ fileIdx' = fileIdx + 1
    /\ pc' = "file"
    /\ UNCHANGED <<fix, projectVersion, snapshots, versions, program, retry, shouldRetry,
                   newSnapshot, errors, exitCode, pass, iterations, commits, proposed, remaining,
                       hasResolveRules, pluginIdx, rules, resolveCalls, lintRules>>

(***************************************************************************)
(* The report pass (index.ts:124-139) and the exit (index.ts:142-147).     *)
(***************************************************************************)
\* if (output) { errors++; ... }
ErrorsAfterReport(errs, output) == IF output # <<>> THEN errs + 1 ELSE errs

Report(lint) ==
    LET synced      == GetProgram(program, snapshots, versions, projectVersion, disk)
        diagnostics == Flat(lint)
        output      == FormatDiagnostics(diagnostics)
    IN  /\ pc = "file"
        /\ fileIdx <= Len(fileNames)
        /\ ~fix
        /\ program' = synced.program
        /\ snapshots' = synced.snapshots
        /\ errors' = ErrorsAfterReport(errors, output)
        /\ remaining' = [remaining EXCEPT ![fileName] = diagnostics # <<>>]
        /\ fileIdx' = fileIdx + 1
        /\ lintRules' = lintRules \cup {RulesOrEmpty(rules)}
        /\ UNCHANGED <<fix, pc, projectVersion, versions, disk, retry, shouldRetry,
                       newSnapshot, exitCode, pass, iterations, commits, proposed, writes,
                       hasResolveRules, pluginIdx, rules, resolveCalls>>

ReportThrows ==
    LET synced == GetProgram(program, snapshots, versions, projectVersion, disk)
    IN  /\ pc = "file"
        /\ fileIdx <= Len(fileNames)
        /\ ~fix
        /\ program' = synced.program
        /\ snapshots' = synced.snapshots
        /\ pc' = "aborted"
        /\ UNCHANGED <<fix, fileIdx, projectVersion, versions, disk, retry, shouldRetry,
                       newSnapshot, errors, exitCode, pass, iterations, commits, proposed, writes,
                       remaining,
                       hasResolveRules, pluginIdx, rules, resolveCalls, lintRules>>

\* if (errors) { ...; process.exit(1); } process.exit(0);
ExitStatus(errs) == IF errs # 0 THEN 1 ELSE 0

Exit ==
    /\ pc = "file"
    /\ fileIdx > Len(fileNames)
    /\ exitCode' = ExitStatus(errors)
    /\ pc' = "exited"
    /\ UNCHANGED <<fix, fileIdx, projectVersion, snapshots, versions, program, disk, retry,
                   shouldRetry, newSnapshot, errors, pass, iterations, commits, proposed, writes,
                   remaining,
                       hasResolveRules, pluginIdx, rules, resolveCalls, lintRules>>

Next ==
    \/ ResolveRules
    \/ StartFix
    \/ FixLoopBody
    \/ FixIterationThrows
    \/ EndFix
    \/ \E lint \in LintAnswers : Report(lint)
    \/ ReportThrows
    \/ Exit

Spec == Init /\ [][Next]_vars

(***************************************************************************)
(* The merge pass on its own, over generated fixes: every way of placing   *)
(* up to MaxEdits text changes on the spans of MergeText and of grouping   *)
(* them, in the order given, into the changes of successive fixes.  The    *)
(* k-th text change inserts NewTexts[k], so the text after the pass shows  *)
(* which text changes were applied and where.                              *)
(***************************************************************************)
MergeFile == fileNames[1]

MergeText == InitialDisk[MergeFile]

SpanLengths == {0, 1, 2}

Spans ==
    {sp \in [start : 0..Len(MergeText), length : SpanLengths] :
        sp.start + sp.length <= Len(MergeText)}

NewTexts == <<"P", "Q", "R", "S", "T", "U">>

\* cuts[k] says that text change k + 1 opens a new fix; cross says that the
\* first fix also carries a change in another file.
MergeInputs ==
    UNION {[spans : [1..n -> Spans], cuts : [1..(n - 1) -> BOOLEAN], cross : BOOLEAN] :
            n \in 1..MaxEdits}

FixOfEdit(in, k) == 1 + Cardinality({j \in 1..(k - 1) : in.cuts[j]})

RECURSIVE TextChangesOfFix(_, _, _)
TextChangesOfFix(in, i, k) ==
    IF k > Len(in.spans) THEN <<>>
    ELSE (IF FixOfEdit(in, k) = i
          THEN <<TextChange(in.spans[k].start, in.spans[k].length, <<NewTexts[k]>>)>>
          ELSE <<>>) \o TextChangesOfFix(in, i, k + 1)

GeneratedFixes(in) ==
    [i \in 1..FixOfEdit(in, Len(in.spans)) |->
        Fix(<<FileChange(MergeFile, TextChangesOfFix(in, i, 1))>>
            \o (IF in.cross /\ i = 1
                THEN <<FileChange(OtherFile(MergeFile), <<TextChange(0, 1, <<"z">>)>>)>>
                ELSE <<>>))]

MergeInit ==
    /\ fix = TRUE
    /\ pc = "merge"
    /\ hasResolveRules = [p \in Plugins |-> FALSE]
    /\ pluginIdx = 1
    /\ rules = NoRules
    /\ resolveCalls = <<>>
    /\ lintRules = {}
    /\ fileIdx = 1
    /\ projectVersion = 0
    /\ snapshots = <<>>
    /\ versions = <<>>
    /\ program = NoProgram
    /\ disk = InitialDisk
    /\ retry = RetryBudget
    /\ shouldRetry = TRUE
    /\ newSnapshot = NoSnapshot
    /\ errors = 0
    /\ exitCode = -1
    /\ \E in \in MergeInputs :
         pass = [NoPass EXCEPT !.file = MergeFile, !.source = MergeText,
                               !.fixes = GeneratedFixes(in)]
    /\ iterations = [f \in Files |-> 0]
    /\ commits = [f \in Files |-> 0]
    /\ proposed = [f \in Files |-> 0]
    /\ writes = [f \in Files |-> 0]
    /\ remaining = [f \in Files |-> FALSE]

\* index.ts:93-111 applied to the generated fixes.
MergePass ==
    /\ pc = "merge"
    /\ pass' = MergePassOf(pass.file, pass.source, pass.fixes)
    /\ pc' = "merged"
    /\ UNCHANGED <<fix, fileIdx, projectVersion, snapshots, versions, program, disk, retry,
                   shouldRetry, newSnapshot, errors, exitCode, iterations, commits, proposed, writes,
                   remaining,
                       hasResolveRules, pluginIdx, rules, resolveCalls, lintRules>>

MergeNext == MergePass

MergeSpec == MergeInit /\ [][MergeNext]_vars

(***************************************************************************)
(* Properties.                                                             *)
(***************************************************************************)
IndexOf(f) == CHOOSE i \in 1..Len(fileNames) : fileNames[i] = f

\* The fix loop of file f is the one the run is in.
InLoop(f) == pc = "loop" /\ IndexOf(f) = fileIdx

\* The fix loop of file f has left its while statement normally.
LoopEnded(f) ==
    /\ fix
    /\ pc \in {"file", "loop", "exited"}
    /\ \/ IndexOf(f) < fileIdx
       \/ InLoop(f) /\ ~LoopGuard(shouldRetry, retry)

\* versions.get(f) ?? 0
VersionOf(vs, f) == IF f \in DOMAIN vs THEN vs[f] ELSE 0

\* The text the host answers for f: its snapshot, or backing storage while
\* no snapshot has been made.
TextOf(snaps, storage, f) == IF f \in DOMAIN snaps THEN snaps[f] ELSE storage[f]

\* C1: whatever the plugins propose, the fix loop of a file runs its body at
\* most 3 times and commits at most 3 times; after the third run the loop
\* guard is false even though a retry was requested.
C1_BoundedConvergence ==
    \A f \in Files :
        /\ iterations[f] <= 3
        /\ commits[f] <= iterations[f]
        /\ (InLoop(f) /\ iterations[f] = 3) => ~LoopGuard(shouldRetry, retry)
        /\ InLoop(f) => retry = RetryBudget - iterations[f]

C1_Witness ==
    \E f \in Files :
        InLoop(f) /\ iterations[f] = 3 /\ commits[f] = 3 /\ shouldRetry /\ retry = 0

\* C2: when every run of the loop body of a file saw a fix with a text change
\* for that file, the loop ends after exactly 3 runs and exactly 3 commits,
\* with the budget at zero and a retry still requested; the counts never
\* grow afterwards.
C2_BudgetExhausted ==
    \A f \in Files :
        (LoopEnded(f) /\ proposed[f] = iterations[f])
            => /\ iterations[f] = 3
               /\ commits[f] = 3
               /\ VersionOf(versions, f) = 3
               /\ InLoop(f) => (retry = 0 /\ shouldRetry)

C2_Witness ==
    \E f \in Files :
        /\ LoopEnded(f) /\ proposed[f] = 3 /\ commits[f] = 3
        /\ pc = "exited"

\* C3: a step that commits a snapshot of a file raises that file's version
\* and the project version by exactly 1; no other step changes either; the
\* version strings the host reports follow, and a file without a commit
\* reports "0".
C3_VersionMonotonicity ==
    [][\A f \in Files :
          /\ commits'[f] = commits[f] + 1
                => /\ VersionOf(versions', f) = VersionOf(versions, f) + 1
                   /\ projectVersion' = projectVersion + 1
                   /\ getScriptVersion(versions', f) # getScriptVersion(versions, f)
                   /\ getProjectVersion(projectVersion') # getProjectVersion(projectVersion)
          /\ commits' = commits
                => /\ VersionOf(versions', f) = VersionOf(versions, f)
                   /\ projectVersion' = projectVersion
          /\ VersionOf(versions', f) >= VersionOf(versions, f)
          /\ projectVersion' >= projectVersion
          /\ commits'[f] = 0 => getScriptVersion(versions', f) = "0"]_vars

C3_Witness ==
    \E f \in Files :
        /\ commits[f] = 2 /\ getScriptVersion(versions, f) = "2"
        /\ commits[OtherFile(f)] = 3 /\ getProjectVersion(projectVersion) = "5"

\* C4: a file is written at most once in a run; a written file is one of a
\* fix-mode run, its loop has ended, it had a commit, and backing storage
\* holds the text of its latest snapshot; an unwritten file keeps its
\* backing text, also while commits are being made in its loop.
C4_WriteOnce ==
    \A f \in Files :
        /\ writes[f] <= 1
        /\ writes[f] = 1
              => /\ fix
                 /\ IndexOf(f) < fileIdx
                 /\ commits[f] >= 1
                 /\ disk[f] = snapshots[f]
        /\ writes[f] = 0 => disk[f] = InitialDisk[f]

C4_Witness ==
    \E f \in Files :
        /\ writes[f] = 1 /\ commits[f] = 3
        /\ disk[f] = snapshots[f] /\ disk[f] # InitialDisk[f]

(***************************************************************************)
(* Properties of one merge pass, read off the record of the pass.          *)
(***************************************************************************)
\* A fix with exactly one change, which is for file f and has text changes.
SingleFileFix(fx, f) ==
    /\ Len(fx.changes) = 1
    /\ fx.changes[1].fileName = f
    /\ Len(fx.changes[1].textChanges) >= 1

\* A fix with changes for two different files.
CrossFileFix(fx) ==
    \E i, j \in 1..Len(fx.changes) : fx.changes[i].fileName # fx.changes[j].fileName

\* The text changes of single-file fixes, each named by <<fix, position>>.
EditIds(fixes) ==
    {<<i, k>> : i \in 1..Len(fixes), k \in 1..MaxEdits + 1} \cap
    UNION {{<<i, k>> : k \in 1..Len(fixes[i].changes[1].textChanges)} : i \in 1..Len(fixes)}

EditAt(fixes, id) == fixes[id[1]].changes[1].textChanges[id[2]]

StartOf(tc) == tc.span.start

EndOf(tc) == tc.span.start + tc.span.length

\* Two text changes leave each other's range alone: one ends at or before
\* the start of the other, and they do not have the same span.
NonOverlapping(a, b) ==
    /\ EndOf(a) <= StartOf(b) \/ EndOf(b) <= StartOf(a)
    /\ a.span # b.span

\* Some change of fix i was applied in the pass.
FixApplied(p, i) ==
    \E k \in 1..Len(p.changes) : p.changes[k].origin = i /\ p.accepted[k]

\* The text with all the text changes substituted at once: at every offset,
\* the text inserted there, then either the replacement of the range that
\* starts there or the character itself.
RECURSIVE Substituted(_, _, _)
Substituted(text, edits, at) ==
    LET inserts  == {e \in edits : StartOf(e) = at /\ e.span.length = 0}
        replaces == {e \in edits : StartOf(e) = at /\ e.span.length > 0}
        inserted == IF inserts = {} THEN <<>> ELSE (CHOOSE e \in inserts : TRUE).newText
    IN  IF at > Len(text) THEN <<>>
        ELSE inserted \o
             (IF replaces # {}
              THEN LET r == CHOOSE e \in replaces : TRUE
                   IN  r.newText \o Substituted(text, edits, EndOf(r))
              ELSE IF at < Len(text)
                   THEN <<text[at + 1]>> \o Substituted(text, edits, at + 1)
                   ELSE <<>>)

Permutations(n) ==
    {q \in [1..n -> 1..n] : \A i, j \in 1..n : i # j => q[i] # q[j]}

\* The fixes of the pass are single-file fixes whose text changes lie within
\* the text and are pairwise non-overlapping.
NonOverlappingFixes(p) ==
    /\ \A i \in 1..Len(p.fixes) : SingleFileFix(p.fixes[i], p.file)
    /\ \A a \in EditIds(p.fixes) : EndOf(EditAt(p.fixes, a)) <= Len(p.source)
    /\ \A a, b \in EditIds(p.fixes) :
          a # b => NonOverlapping(EditAt(p.fixes, a), EditAt(p.fixes, b))

\* Every fix was applied, and the text is the simultaneous substitution,
\* for the enumeration order of the pass and for every other one.
AllApplied(p) ==
    LET edits == {EditAt(p.fixes, a) : a \in EditIds(p.fixes)}
        wanted == Substituted(p.source, edits, 0)
    IN  /\ \A i \in 1..Len(p.fixes) : FixApplied(p, i)
        /\ p.text = wanted
        /\ \A q \in Permutations(Len(p.fixes)) :
              LET again == MergePassOf(p.file, p.source, [i \in 1..Len(p.fixes) |-> p.fixes[q[i]]])
              IN  /\ again.text = wanted
                  /\ \A k \in 1..Len(again.accepted) : again.accepted[k]

\* C5 as stated: for single-file fixes with pairwise non-overlapping text
\* changes within the text, one pass applies every fix and gives the
\* simultaneous substitution, whatever the enumeration order.
C5_AsStated ==
    (pc = "merged" /\ NonOverlappingFixes(pass)) => AllApplied(pass)

\* C6 as stated: of two fixes of one text change each with the same span,
\* of any length, the pass applies the one enumerated first and only it.
C6_AsStated ==
    (/\ pc = "merged"
     /\ Len(pass.fixes) = 2
     /\ NonOverlappingFixes([pass EXCEPT !.fixes = <<pass.fixes[1]>>])
     /\ NonOverlappingFixes([pass EXCEPT !.fixes = <<pass.fixes[2]>>])
     /\ Len(pass.fixes[1].changes[1].textChanges) = 1
     /\ Len(pass.fixes[2].changes[1].textChanges) = 1
     /\ pass.fixes[1].changes[1].textChanges[1].span = pass.fixes[2].changes[1].textChanges[1].span)
        => /\ FixApplied(pass, 1)
           /\ ~FixApplied(pass, 2)
           /\ pass.text = ApplyTextChange(pass.source, pass.fixes[1].changes[1].textChanges[1])

\* C7 as stated: a fix with changes for two files has none of its changes
\* applied, and a pass with only such fixes requests no retry (no commit).
C7_AsStated ==
    pass.ran =>
        /\ \A i \in 1..Len(pass.fixes) : CrossFileFix(pass.fixes[i]) => ~FixApplied(pass, i)
        /\ (InLoop(pass.file) /\ \A i \in 1..Len(pass.fixes) : CrossFileFix(pass.fixes[i]))
              => ~shouldRetry

\* C8: a loop body in which no fix has a text change for the file leaves the
\* file's text, its version, the project version and the loop's snapshot as
\* they were and ends the loop; and leaving the loop of a file without a
\* commit writes nothing.
C8_NoOpIteration ==
    [][\A f \in Files :
          /\ (iterations'[f] = iterations[f] + 1 /\ pc' = "loop" /\ ~ProposesFor(pass'.fixes, f))
                => /\ TextOf(snapshots', disk', f) = TextOf(snapshots, disk, f)
                   /\ getScriptVersion(versions', f) = getScriptVersion(versions, f)
                   /\ getProjectVersion(projectVersion') = getProjectVersion(projectVersion)
                   /\ newSnapshot' = newSnapshot
                   /\ commits' = commits
                   /\ disk' = disk
                   /\ ~LoopGuard(shouldRetry', retry')
          /\ (InLoop(f) /\ pc' = "file" /\ commits[f] = 0)
                => (disk' = disk /\ writes' = writes)]_vars

C8_Witness ==
    /\ pass.ran /\ InLoop(pass.file)
    /\ pass.fixes # <<>> /\ ~ProposesFor(pass.fixes, pass.file)
    /\ commits[pass.file] = 1 /\ iterations[pass.file] = 2
    /\ ~shouldRetry /\ retry = 1

\* C9: each loop body of a file runs on the text of the snapshot the body
\* before it committed (the first one on the backing text), and its text
\* changes are applied to that text.
C9_NoStaleness ==
    [][\A f \in Files :
          (iterations'[f] = iterations[f] + 1 /\ pc' = "loop")
             => LET base == IF newSnapshot.defined THEN newSnapshot.text ELSE disk[f]
                IN  /\ pass'.source = base
                    /\ pass'.text = MergeLoop(pass'.changes, base, Len(pass'.changes)).text
                    /\ iterations[f] >= 1
                          => /\ newSnapshot.defined
                             /\ base = pass.text
                             /\ base = snapshots[f]]_vars

C9_Witness ==
    /\ pass.ran /\ InLoop(pass.file)
    /\ iterations[pass.file] = 3
    /\ pass.source # InitialDisk[pass.file]
    /\ pass.source = <<"x", "b", "c", ";">>
    /\ pass.text = <<"b", "c", ";">>

\* C10 as stated: at the end of a run, in either mode, the exit status is
\* non-zero exactly when the latest lint of some file gave diagnostics.
C10_AsStated ==
    pc = "exited" => ((exitCode # 0) <=> \E f \in Files : remaining[f])

\* The state of a fix run that a throw in a loop body has ended: the file of
\* the loop was never written, the files after it were never touched, and a
\* file written before it holds its last committed snapshot.
AbortedRun ==
    (pc = "aborted" /\ fix)
        => /\ writes[fileName] = 0
           /\ disk[fileName] = InitialDisk[fileName]
           /\ \A f \in Files :
                 /\ IndexOf(f) > fileIdx
                       => /\ iterations[f] = 0 /\ commits[f] = 0 /\ writes[f] = 0
                          /\ disk[f] = InitialDisk[f]
                          /\ TextOf(snapshots, disk, f) = InitialDisk[f]
                 /\ (IndexOf(f) < fileIdx /\ writes[f] = 1) => disk[f] = snapshots[f]

\* C11: a throw in a loop body (no source file, or a plugin that throws) ends
\* the run: no step follows it, so no later file is processed; the step
\* itself writes nothing, so the file of the loop is never written even when
\* earlier runs of the body committed snapshots of it, and the files written
\* before keep what was written.
C11_AbortOnThrow ==
    [][/\ pc # "aborted"
       /\ pc' = "aborted" => (disk' = disk /\ writes' = writes /\ AbortedRun')]_vars

C11_Witness ==
    /\ pc = "aborted" /\ fix /\ fileIdx = 2
    /\ commits[fileNames[2]] >= 1 /\ newSnapshot.defined
    /\ snapshots[fileNames[2]] # disk[fileNames[2]]
    /\ writes[fileNames[1]] = 1 /\ disk[fileNames[1]] # InitialDisk[fileNames[1]]

\* The fixes of the pass are single-file fixes whose text changes lie within
\* the text; the text changes of one fix are pairwise non-overlapping.
WellFormedFixes(p) ==
    /\ \A i \in 1..Len(p.fixes) : SingleFileFix(p.fixes[i], p.file)
    /\ \A a \in EditIds(p.fixes) : EndOf(EditAt(p.fixes, a)) <= Len(p.source)
    /\ \A a, b \in EditIds(p.fixes) :
          (a # b /\ a[1] = b[1]) => NonOverlapping(EditAt(p.fixes, a), EditAt(p.fixes, b))

\* No text change of one fix has the span of a text change of another fix.
NoIdenticalSpans(p) ==
    \A a, b \in EditIds(p.fixes) :
        a[1] # b[1] => EditAt(p.fixes, a).span # EditAt(p.fixes, b).span

\* The fixes applied by a pass.
AppliedFixes(p) == {i \in 1..Len(p.fixes) : FixApplied(p, i)}

\* C12 as stated: when no two fixes have a text change on the same span,
\* every enumeration order of the fixes gives the same applied fixes and
\* the same text.
C12_AsStated ==
    (pc = "merged" /\ WellFormedFixes(pass) /\ NoIdenticalSpans(pass))
        => \A q \in Permutations(Len(pass.fixes)) :
              LET again == MergePassOf(pass.file, pass.source,
                                       [i \in 1..Len(pass.fixes) |-> pass.fixes[q[i]]])
              IN  /\ again.text = pass.text
                  /\ {q[i] : i \in AppliedFixes(again)} = AppliedFixes(pass)

\* The plugins among the first n that have a resolveRules method, in
\* registration order: the configuration that their calls, chained, produce.
RECURSIVE ResolvedBy(_)
ResolvedBy(n) ==
    IF n = 0 THEN <<>>
    ELSE ResolvedBy(n - 1) \o (IF hasResolveRules[n] THEN <<n>> ELSE <<>>)

\* C13: the resolveRules calls made so far are those of the plugins that
\* have the method and that the loop has passed, once each and in
\* registration order, each given what the one before returned (the empty
\* configuration for the first); while the loop runs no file has been
\* linted or merged; every lint call is given the configuration that the
\* whole chain produced.
C13_ResolveBeforeLint ==
    LET done == ResolvedBy(pluginIdx - 1)
    IN  /\ resolveCalls = [k \in 1..Len(done) |->
                              [plugin |-> done[k], input |-> SubSeq(done, 1, k - 1)]]
        /\ RulesOrEmpty(rules) = done
        /\ pc = "resolve"
              => /\ lintRules = {} /\ ~pass.ran /\ program = NoProgram
                 /\ \A f \in Files : iterations[f] = 0
        /\ pc \in {"file", "loop", "exited", "aborted"} => pluginIdx = Cardinality(Plugins) + 1
        /\ lintRules \subseteq {ResolvedBy(Cardinality(Plugins))}

C13_Witness ==
    /\ pc = "exited"
    /\ \A p \in Plugins : hasResolveRules[p]
    /\ Len(resolveCalls) = Cardinality(Plugins)
    /\ lintRules = {<<1, 2>>}
    /\ \A f \in Files : iterations[f] >= 1

\* lastChangeAt after the first k changes of the pass.
BoundaryAfter(p, k) == MergeLoop(p.changes, p.source, k).lastChangeAt

\* The text changes of the changes that the pass applied, with the position
\* of their change in the walk.
AppliedEdits(p) ==
    UNION {{[at |-> k, edit |-> p.changes[k].textChanges[j]] :
                j \in 1..Len(p.changes[k].textChanges)} :
           k \in {k \in 1..Len(p.changes) : p.accepted[k]}}

\* C14 as stated: for fixes whose own text changes are pairwise disjoint and
\* within the text, every text change of a change applied later ends at or
\* before the start of every text change of a change applied earlier, and
\* lastChangeAt never increases along the walk.
C14_AsStated ==
    (pc = "merged" /\ WellFormedFixes(pass))
        => /\ \A a, b \in AppliedEdits(pass) :
                 a.at < b.at => EndOf(b.edit) <= StartOf(a.edit)
           /\ \A k \in 1..Len(pass.changes) :
                 BoundaryAfter(pass, k) <= BoundaryAfter(pass, k - 1)

\* Change j of fix i was applied by the pass: it is for the file of the pass
\* and the walk accepted it.
ChangeApplied(p, i, j) ==
    /\ p.fixes[i].changes[j].fileName = p.file
    /\ \E k \in 1..Len(p.changes) :
          /\ p.changes[k].origin = i
          /\ p.changes[k].textChanges = p.fixes[i].changes[j].textChanges
          /\ p.accepted[k]

\* The changes of fix i that carry text changes.
EditingChanges(p, i) ==
    {j \in 1..Len(p.fixes[i].changes) : Len(p.fixes[i].changes[j].textChanges) # 0}

\* C15 as stated: after a pass, every fix proposed in it has either all of
\* its text changes applied or none of them.
C15_AsStated ==
    pc = "merged"
        => \A i \in 1..Len(pass.fixes) :
              \/ \A j \in EditingChanges(pass, i) : ChangeApplied(pass, i, j)
              \/ \A j \in EditingChanges(pass, i) : ~ChangeApplied(pass, i, j)

\* Some change was applied by the pass.
SomeAccepted(p) == \E k \in 1..Len(p.changes) : p.accepted[k]

\* C16 as stated: a loop body commits (new snapshot, version bumps, retry
\* requested) only if its pass applied some change; a body in which fixes
\* were proposed for the file and none was applied leaves snapshot and
\* versions alone and requests no retry.
C16_AsStated ==
    [][(pc' = "loop" /\ iterations' # iterations)
          => /\ commits' # commits => SomeAccepted(pass')
             /\ (ProposesFor(pass'.fixes, pass'.file) /\ ~SomeAccepted(pass'))
                   => /\ commits' = commits
                      /\ versions' = versions
                      /\ projectVersion' = projectVersion
                      /\ newSnapshot' = newSnapshot
                      /\ ~shouldRetry']_vars

\* The largest start offset among the text changes of a change.
RightmostStart(change) ==
    LET starts == {StartOf(change.textChanges[j]) : j \in 1..Len(change.textChanges)}
    IN  CHOOSE s \in starts : \A t \in starts : t <= s

\* C17 as stated: the pass walks the changes in descending order of the
\* start offset of their rightmost text change, whatever the order in which
\* a change lists its text changes.
C17_AsStated ==
    (pc = "merged" /\ WellFormedFixes(pass))
        => \A k \in 1..(Len(pass.changes) - 1) :
              RightmostStart(pass.changes[k]) >= RightmostStart(pass.changes[k + 1])

\* The range of a change: from its leftmost start to its rightmost end.
RangeOf(change) ==
    LET ids == 1..Len(change.textChanges)
    IN  [lo |-> CHOOSE s \in {StartOf(change.textChanges[j]) : j \in ids} :
                    \A j \in ids : s <= StartOf(change.textChanges[j]),
         hi |-> CHOOSE e \in {EndOf(change.textChanges[j]) : j \in ids} :
                    \A j \in ids : EndOf(change.textChanges[j]) <= e]

\* Two ranges overlap: neither ends at or before the start of the other.
RangesOverlap(r, s) == ~(r.hi <= s.lo \/ s.hi <= r.lo)

\* C18 as stated: every change skipped by the pass overlaps the range of a
\* change that the pass applied.
C18_AsStated ==
    (pc = "merged" /\ WellFormedFixes(pass))
        => \A k \in 1..Len(pass.changes) :
              ~pass.accepted[k]
                 => \E m \in 1..Len(pass.changes) :
                       /\ pass.accepted[m]
                       /\ RangesOverlap(RangeOf(pass.changes[k]), RangeOf(pass.changes[m]))

\* C19: a step changes the text the host answers, the version, the backing
\* text and the counters only of the file of the for loop; the for loop
\* moves on by one file, and in fix mode only from a loop whose guard is
\* false; in report mode no step changes a text, a version, the project
\* version or backing storage.
C19_FileIsolation ==
    [][/\ \A f \in Files :
            (pc = "resolve" \/ IndexOf(f) # fileIdx)
               => /\ TextOf(snapshots', disk', f) = TextOf(snapshots, disk, f)
                  /\ VersionOf(versions', f) = VersionOf(versions, f)
                  /\ disk'[f] = disk[f]
                  /\ iterations'[f] = iterations[f]
                  /\ commits'[f] = commits[f]
                  /\ writes'[f] = writes[f]
       /\ fileIdx' # fileIdx
            => /\ fileIdx' = fileIdx + 1
               /\ fix => (pc = "loop" /\ ~LoopGuard(shouldRetry, retry))
       /\ ~fix
            => /\ \A f \in Files :
                     /\ TextOf(snapshots', disk', f) = TextOf(snapshots, disk, f)
                     /\ VersionOf(versions', f) = VersionOf(versions, f)
               /\ projectVersion' = projectVersion
               /\ disk' = disk
               /\ writes' = writes]_vars

C19_Witness ==
    /\ InLoop(fileNames[2])
    /\ commits[fileNames[2]] = 1 /\ VersionOf(versions, fileNames[2]) = 1
    /\ snapshots[fileNames[2]] # InitialDisk[fileNames[2]]
    /\ commits[fileNames[1]] = 2 /\ VersionOf(versions, fileNames[1]) = 2
    /\ writes[fileNames[1]] = 1 /\ snapshots[fileNames[1]] = disk[fileNames[1]]
    /\ projectVersion = 3

\* The sum of the versions of the first k files.
RECURSIVE SumOfVersions(_, _)
SumOfVersions(vs, k) ==
    IF k = 0 THEN 0 ELSE SumOfVersions(vs, k - 1) + VersionOf(vs, fileNames[k])

\* The number of commits made to the first k files.
RECURSIVE SumOfCommits(_)
SumOfCommits(k) == IF k = 0 THEN 0 ELSE SumOfCommits(k - 1) + commits[fileNames[k]]

\* C20: in every state the project version is the sum of the versions of the
\* files, which is the number of commits made so far.
C20_ProjectVersionIsSum ==
    /\ projectVersion = SumOfVersions(versions, Len(fileNames))
    /\ projectVersion = SumOfCommits(Len(fileNames))

C20_Witness ==
    /\ pc = "exited"
    /\ VersionOf(versions, fileNames[1]) = 3
    /\ VersionOf(versions, fileNames[2]) = 2
    /\ projectVersion = 5

=============================================================================
